---- MODULE Spec2Model ----
(***************************************************************************)
(* Conway's Game of Life board engine (src/main.rs): the Conway struct,    *)
(* its cell accessors, neighbour counting, tick, the seeding helpers and   *)
(* the preset patterns.                                                    *)
(*                                                                         *)
(* The Vec<CellState> is a function over 0 .. len-1 (row-major, index      *)
(* x + y * width).  Results are "Ok", "Ok(true)", "Ok(false)", "Err" and   *)
(* "Panic" (a Rust panic: slice index out of range, empty gen_range).      *)
(***************************************************************************)
EXTENDS Integers, Sequences, FiniteSets

\* ---------------------------------------------------------------- bounds
\* Boards are width x height with width, height <= MaxSide and
\* width * height <= MaxCells.
MaxSide == 4
MaxCells == 9
\* Coordinates passed to revive_cell range over 0 .. dimension - 1 + CoordSlack.
CoordSlack == 1
\* Pattern boards are the pattern's preferred size plus 0 .. PatternSlack per side.
PatternSlack == 1
\* Number of consecutive tick calls followed (the length of tickLog).
MaxTicks == 3
\* Boards on which set_cell is called directly have at most MaxSetCells cells.
MaxSetCells == 6
\* The --cells list holds at most MaxPairs pairs.
MaxPairs == 3
\* User coordinates also range over the WordSlack largest values of usize.
WordSlack == 1

\* ---------------------------------------------------------------- data
Alive == "Alive"
Dead == "Dead"
None == "None"
CellState == {Alive, Dead}

VARIABLES width, height, cells, pc, op, args, ret, printed, genLeft, pattern, seedIdx, tickLog,
          frames, overflowChecks

vars == <<width, height, cells, pc, op, args, ret, printed, genLeft, pattern, seedIdx, tickLog,
          frames, overflowChecks>>

\* Vec::len
VecLen(v) == Cardinality(DOMAIN v)

\* Vec::get(i) -> Option<&T>
VecGet(v, i) == IF i \in DOMAIN v THEN v[i] ELSE None

\* vec![CellState::Dead; width * height]
NewCells(w, h) == [i \in 0 .. (w * h - 1) |-> Dead]

NEIGHBOR_COORDINATES ==
    << <<-1, -1>>, <<0, -1>>, <<1, -1>>, <<-1, 0>>,
       <<1, 0>>, <<-1, 1>>, <<0, 1>>, <<1, 1>> >>

\* ---------------------------------------------------------------- cell access
get_cell(c, w, x, y) == VecGet(c, x + y * w)

\* set_cell that pushes the state when the index is one past the end.
set_cell_grows(c, w, x, y, state) ==
    IF x + y * w > VecLen(c)
    THEN [ret |-> "Err", cells |-> c]
    ELSE IF x + y * w \in DOMAIN c
         THEN [ret |-> "Ok", cells |-> [c EXCEPT ![x + y * w] = state]]
         ELSE [ret |-> "Ok", cells |-> [i \in 0 .. VecLen(c) |-> IF i \in DOMAIN c THEN c[i] ELSE state]]

\* set_cell with column and row exchanged in the index.
set_cell_transposed(c, w, x, y, state) ==
    IF y + x * w > VecLen(c)
    THEN [ret |-> "Err", cells |-> c]
    ELSE IF y + x * w \in DOMAIN c
         THEN [ret |-> "Ok", cells |-> [c EXCEPT ![y + x * w] = state]]
         ELSE [ret |-> "Panic", cells |-> c]

set_cell(c, w, x, y, state) ==
    IF x + y * w > VecLen(c)
    THEN [ret |-> "Err", cells |-> c]
    ELSE IF x + y * w \in DOMAIN c
         THEN [ret |-> "Ok", cells |-> [c EXCEPT ![x + y * w] = state]]
         ELSE [ret |-> "Panic", cells |-> c]

\* The line revive_cell prints for a cell that is alive already.
Skipping == "was already alive, skipping..."
Silent == ""

revive_cell_alive_is_error(c, w, x, y) ==
    LET cell == VecGet(c, x + y * w)
        r == set_cell(c, w, x, y, Alive)
    IN  IF cell = None THEN [ret |-> "Err", cells |-> c, printed |-> Silent]
        ELSE IF cell = Alive THEN [ret |-> "Err", cells |-> c, printed |-> Silent]
        ELSE [ret |-> r.ret, cells |-> r.cells, printed |-> Silent]

revive_cell(c, w, x, y) ==
    LET cell == VecGet(c, x + y * w)
        r == set_cell(c, w, x, y, Alive)
    IN  IF cell = None THEN [ret |-> "Err", cells |-> c, printed |-> Silent]
        ELSE IF cell = Alive THEN [ret |-> "Ok", cells |-> c, printed |-> Skipping]
        ELSE [ret |-> r.ret, cells |-> r.cells, printed |-> Silent]

\* ---------------------------------------------------------------- neighbours
RECURSIVE CountFrom(_, _, _, _, _, _)
CountFrom(offsets, c, w, x, y, k) ==
    IF k > Len(offsets) THEN 0
    ELSE LET neighbor_x == x + offsets[k][1]
             neighbor_y == y + offsets[k][2]
             rest == CountFrom(offsets, c, w, x, y, k + 1)
         IN  IF neighbor_x < 0 \/ neighbor_y < 0 THEN rest
             ELSE IF get_cell(c, w, neighbor_x, neighbor_y) = Alive
                  THEN 1 + rest
                  ELSE rest

\* The loop with `&&` in the skip test: an offset is skipped only when both
\* coordinates are negative.
RECURSIVE CountFromBothNegative(_, _, _, _, _, _)
CountFromBothNegative(offsets, c, w, x, y, k) ==
    IF k > Len(offsets) THEN 0
    ELSE LET neighbor_x == x + offsets[k][1]
             neighbor_y == y + offsets[k][2]
             rest == CountFromBothNegative(offsets, c, w, x, y, k + 1)
         IN  IF neighbor_x < 0 /\ neighbor_y < 0 THEN rest
             ELSE IF get_cell(c, w, neighbor_x, neighbor_y) = Alive
                  THEN 1 + rest
                  ELSE rest

neighbors_skips_both_negative(c, w, x, y) ==
    IF get_cell(c, w, x, y) = None THEN [ret |-> "Err", n |-> 0]
    ELSE [ret |-> "Ok", n |-> CountFromBothNegative(NEIGHBOR_COORDINATES, c, w, x, y, 1)]

neighbors_above_twice(c, w, x, y) ==
    IF get_cell(c, w, x, y) = None THEN [ret |-> "Err", n |-> 0]
    ELSE [ret |-> "Ok",
          n |-> CountFrom([NEIGHBOR_COORDINATES EXCEPT ![7] = <<0, -1>>], c, w, x, y, 1)]

neighbors(c, w, x, y) ==
    IF get_cell(c, w, x, y) = None THEN [ret |-> "Err", n |-> 0]
    ELSE [ret |-> "Ok", n |-> CountFrom(NEIGHBOR_COORDINATES, c, w, x, y, 1)]

\* ---------------------------------------------------------------- tick
\* The match on one cell inside the scan: the entries pushed to `changed`.
tick_cell_records_all(c, w, x, y) ==
    LET n == neighbors(c, w, x, y).n
        cell == get_cell(c, w, x, y)
    IN  IF cell = Alive
        THEN IF ~(n \in 2 .. 3) THEN << <<x, y, Dead>> >> ELSE << <<x, y, Alive>> >>
        ELSE IF n = 3 THEN << <<x, y, Alive>> >> ELSE << <<x, y, Dead>> >>

tick_cell_birth_unless_three(c, w, x, y) ==
    LET n == neighbors(c, w, x, y).n
        cell == get_cell(c, w, x, y)
    IN  IF cell = Alive
        THEN IF ~(n \in 2 .. 3) THEN << <<x, y, Dead>> >> ELSE << >>
        ELSE IF n # 3 THEN << <<x, y, Alive>> >> ELSE << >>

tick_cell(c, w, x, y) ==
    LET n == neighbors(c, w, x, y).n
        cell == get_cell(c, w, x, y)
    IN  IF cell = Alive
        THEN IF ~(n \in 2 .. 3) THEN << <<x, y, Dead>> >> ELSE << >>
        ELSE IF n = 3 THEN << <<x, y, Alive>> >> ELSE << >>

\* for y in 0..height { for x in 0..width { ... } }: the `changed` vector.
RECURSIVE Scan(_, _, _, _, _)
Scan(c, w, h, x, y) ==
    IF y >= h THEN << >>
    ELSE IF x >= w THEN Scan(c, w, h, 0, y + 1)
    ELSE tick_cell(c, w, x, y) \o Scan(c, w, h, x + 1, y)

\* The `?` on neighbors / get_cell inside the scan (the scan mutates nothing,
\* so an early return leaves the grid as it was).
ScanFails(c, w, h) ==
    \E y \in 0 .. h - 1, x \in 0 .. w - 1 :
        neighbors(c, w, x, y).ret = "Err" \/ get_cell(c, w, x, y) = None

\* for (x, y, state) in changed { self.set_cell(x, y, state)?; }
RECURSIVE Apply(_, _, _, _)
Apply(c, w, changed, k) ==
    IF k > Len(changed) THEN [ret |-> "Ok", cells |-> c]
    ELSE LET r == set_cell(c, w, changed[k][1], changed[k][2], changed[k][3])
         IN  IF r.ret = "Ok" THEN Apply(r.cells, w, changed, k + 1) ELSE r

\* A scan that writes each transition into the grid as soon as it is found.
RECURSIVE ScanInPlace(_, _, _, _, _, _)
ScanInPlace(c, w, h, x, y, any) ==
    IF y >= h THEN [ret |-> IF any THEN "Ok(true)" ELSE "Ok(false)", cells |-> c]
    ELSE IF x >= w THEN ScanInPlace(c, w, h, 0, y + 1, any)
    ELSE LET ch == tick_cell(c, w, x, y)
         IN  IF ch = << >> THEN ScanInPlace(c, w, h, x + 1, y, any)
             ELSE ScanInPlace(set_cell(c, w, x, y, ch[1][3]).cells, w, h, x + 1, y, TRUE)

tick_in_place(c, w, h) == ScanInPlace(c, w, h, 0, 0, FALSE)

tick_inverted_result(c, w, h) ==
    IF ScanFails(c, w, h) THEN [ret |-> "Err", cells |-> c]
    ELSE LET changed == Scan(c, w, h, 0, 0)
             r == Apply(c, w, changed, 1)
         IN  IF r.ret = "Ok"
             THEN [ret |-> IF changed = << >> THEN "Ok(true)" ELSE "Ok(false)",
                   cells |-> r.cells]
             ELSE r

tick(c, w, h) ==
    IF ScanFails(c, w, h) THEN [ret |-> "Err", cells |-> c]
    ELSE LET changed == Scan(c, w, h, 0, 0)
         IN  IF changed = << >> THEN [ret |-> "Ok(false)", cells |-> c]
             ELSE LET r == Apply(c, w, changed, 1)
                  IN  IF r.ret = "Ok" THEN [ret |-> "Ok(true)", cells |-> r.cells]
                      ELSE r

\* ---------------------------------------------------------------- seeding helpers
\* One pass of the inner `loop` of generate_board with the drawn (x, y):
\* placed = the loop breaks.
generate_step_counts_collisions(c, w, x, y) ==
    LET cell == get_cell(c, w, x, y)
    IN  IF cell = None THEN [ret |-> "Ok", cells |-> c, placed |-> FALSE]
        ELSE LET r == set_cell(c, w, x, y, Alive)
             IN  [ret |-> r.ret, cells |-> r.cells, placed |-> r.ret = "Ok"]

generate_step(c, w, x, y) ==
    LET cell == get_cell(c, w, x, y)
    IN  IF cell = None \/ cell = Alive THEN [ret |-> "Ok", cells |-> c, placed |-> FALSE]
        ELSE LET r == set_cell(c, w, x, y, Alive)
             IN  [ret |-> r.ret, cells |-> r.cells, placed |-> r.ret = "Ok"]

\* generate_random_board: every index whose draw was 0 becomes Alive.
generate_random_board(c, zeros) ==
    [i \in DOMAIN c |-> IF i \in zeros THEN Alive ELSE c[i]]

\* ---------------------------------------------------------------- patterns
Patterns == {"Block", "Blinker", "Beehive", "Toad", "Loaf", "Beacon", "Tub"}

coordinates(p) ==
    CASE p = "Block"   -> << <<2, 2>>, <<3, 2>>, <<2, 3>>, <<3, 3>> >>
      [] p = "Blinker" -> << <<2, 3>>, <<3, 3>>, <<4, 3>> >>
      [] p = "Beehive" -> << <<3, 2>>, <<4, 2>>, <<2, 3>>, <<4, 3>>, <<3, 4>>, <<4, 4>> >>
      [] p = "Loaf"    -> << <<3, 2>>, <<4, 2>>, <<2, 3>>, <<4, 3>>, <<3, 4>>, <<4, 4>>, <<4, 5>> >>
      [] p = "Toad"    -> << <<4, 2>>, <<2, 3>>, <<5, 3>>, <<2, 4>>, <<5, 4>>, <<3, 5>> >>
      [] p = "Beacon"  -> << <<2, 2>>, <<3, 2>>, <<2, 3>>, <<5, 4>>, <<4, 5>>, <<5, 5>> >>
      [] p = "Tub"     -> << <<3, 2>>, <<2, 3>>, <<4, 2>>, <<3, 4>> >>

size(p) ==
    CASE p = "Block" -> <<4, 4>>
      [] p \in {"Blinker", "Tub"} -> <<5, 5>>
      [] p = "Beehive" -> <<6, 5>>
      [] p \in {"Loaf", "Toad", "Beacon"} -> <<6, 6>>

\* ---------------------------------------------------------------- state machine
\* pc: "idle"  the board accepts a call
\*     "gen"   inside the placement loop of generate_board
\*     "seed"  main is reviving the coordinates of a pattern
\*     "loop"  game_loop is ticking
\*     "stable" game_loop saw tick return false and has left its loop
\*     "wait"  game_loop has printed the last board and reads a line from stdin
\*     "done"  game_loop returned Ok
\*     "cells" main is reviving the pairs given with --cells
\*     "exit"  main returned an error
\*     "abort" the process panicked
\* op, args, ret, printed: the last call made on the board, its arguments, its
\* result and what it printed.
\* tickLog: the results of the tick calls made since the last other call.
\* frames: the boards game_loop has printed, in order.
\* overflowChecks: whether the build panics on integer overflow (the dev
\* profile) or wraps (the release profile).

BoardSizes == {d \in (0 .. MaxSide) \X (0 .. MaxSide) : d[1] * d[2] <= MaxCells}

\* Conway::new(width, height, rng)
Init ==
    /\ \E d \in BoardSizes : width = d[1] /\ height = d[2]
    /\ cells = NewCells(width, height)
    /\ pc = "idle"
    /\ op = "new"
    /\ args = << >>
    /\ ret = "Ok"
    /\ printed = Silent
    /\ genLeft = 0
    /\ pattern = "none"
    /\ seedIdx = 0
    /\ tickLog = << >>
    /\ frames = << >>
    /\ overflowChecks = TRUE

After(result) == IF result = "Panic" THEN "abort" ELSE "idle"

ReviveCell(x, y) ==
    /\ pc = "idle"
    /\ LET r == revive_cell(cells, width, x, y)
       IN  /\ cells' = r.cells
           /\ ret' = r.ret
           /\ printed' = r.printed
           /\ pc' = After(r.ret)
    /\ op' = "revive_cell"
    /\ args' = <<x, y>>
    /\ tickLog' = << >>
    /\ UNCHANGED <<frames, overflowChecks>>
    /\ UNCHANGED <<width, height, genLeft, pattern, seedIdx>>

Tick ==
    /\ pc = "idle"
    /\ Len(tickLog) < MaxTicks
    /\ LET r == tick(cells, width, height)
       IN  /\ cells' = r.cells
           /\ ret' = r.ret
           /\ pc' = After(r.ret)
           /\ tickLog' = Append(tickLog, r.ret)
    /\ op' = "tick"
    /\ args' = << >>
    /\ printed' = Silent
    /\ UNCHANGED <<frames, overflowChecks>>
    /\ UNCHANGED <<width, height, genLeft, pattern, seedIdx>>

\* generate_board(n), called by main on the board it has just constructed:
\* `for _ in 0..cells` with nothing to place returns at once.
GenerateBoard(n) ==
    /\ pc = "idle"
    /\ cells = NewCells(width, height)
    /\ op' = "generate_board"
    /\ args' = <<n>>
    /\ genLeft' = n
    /\ IF n = 0
       THEN pc' = "idle" /\ ret' = "Ok"
       ELSE pc' = "gen" /\ ret' = "Running"
    /\ printed' = Silent
    /\ tickLog' = << >>
    /\ UNCHANGED <<frames, overflowChecks>>
    /\ UNCHANGED <<width, height, cells, pattern, seedIdx>>

\* One pass of the inner loop with the pair the rng drew.
GenerateDraw(x, y) ==
    /\ pc = "gen"
    /\ LET r == generate_step(cells, width, x, y)
           left == IF r.placed THEN genLeft - 1 ELSE genLeft
       IN  /\ cells' = r.cells
           /\ genLeft' = left
           /\ IF r.ret # "Ok" THEN ret' = r.ret /\ pc' = After(r.ret)
              ELSE IF left = 0 THEN ret' = "Ok" /\ pc' = "idle"
              ELSE ret' = "Running" /\ pc' = "gen"
    /\ UNCHANGED <<frames, overflowChecks>>
    /\ UNCHANGED <<width, height, op, args, printed, pattern, seedIdx, tickLog>>

\* gen_range(0..0) panics: there is no pair to draw on a board without cells.
GenerateEmptyRange ==
    /\ pc = "gen"
    /\ width = 0 \/ height = 0
    /\ ret' = "Panic"
    /\ pc' = "abort"
    /\ UNCHANGED <<frames, overflowChecks>>
    /\ UNCHANGED <<width, height, cells, op, args, printed, genLeft, pattern, seedIdx, tickLog>>

\* generate_random_board, called by main on the board it has just constructed.
\* zeros: the indices whose draw from 0..=1 was 0.
GenerateRandomBoard ==
    /\ pc = "idle"
    /\ cells = NewCells(width, height)
    /\ \E zeros \in SUBSET (DOMAIN cells) : cells' = generate_random_board(cells, zeros)
    /\ op' = "generate_random_board"
    /\ args' = << >>
    /\ ret' = "Ok"
    /\ printed' = Silent
    /\ tickLog' = << >>
    /\ UNCHANGED <<frames, overflowChecks>>
    /\ UNCHANGED <<width, height, pc, genLeft, pattern, seedIdx>>

Next ==
    \/ \E x \in 0 .. width - 1 + CoordSlack, y \in 0 .. height - 1 + CoordSlack :
          ReviveCell(x, y)
    \/ Tick
    \/ \E n \in 0 .. width * height + 1 : GenerateBoard(n)
    \/ \E x \in 0 .. width - 1, y \in 0 .. height - 1 : GenerateDraw(x, y)
    \/ GenerateEmptyRange
    \/ GenerateRandomBoard

Spec == Init /\ [][Next]_vars

\* ---------------------------------------------------------------- direct set_cell
\* The methods of Spec together with set_cell called with any coordinate and
\* state, on the boards of at most MaxSetCells cells.
InitEngine == Init /\ width * height <= MaxSetCells

SetCell(x, y, state) ==
    /\ pc = "idle"
    /\ LET r == set_cell(cells, width, x, y, state)
       IN  /\ cells' = r.cells
           /\ ret' = r.ret
           /\ pc' = After(r.ret)
    /\ op' = "set_cell"
    /\ args' = <<x, y, state>>
    /\ printed' = Silent
    /\ tickLog' = << >>
    /\ UNCHANGED <<width, height, genLeft, pattern, seedIdx, frames, overflowChecks>>

NextEngine ==
    \/ Next
    \/ \E x \in 0 .. width - 1 + CoordSlack, y \in 0 .. height - 1 + CoordSlack,
          state \in CellState : SetCell(x, y, state)

SpecEngine == InitEngine /\ [][NextEngine]_vars

\* ---------------------------------------------------------------- pattern run
\* main with a pattern argument: Conway::new(size) and one revive_cell per
\* coordinate, then game_loop.  Boards larger than the preferred size are
\* included (PatternSlack).
InitPattern ==
    /\ pattern \in Patterns
    /\ \E dx \in 0 .. PatternSlack, dy \in 0 .. PatternSlack :
          /\ width = size(pattern)[1] + dx
          /\ height = size(pattern)[2] + dy
    /\ cells = NewCells(width, height)
    /\ pc = "seed"
    /\ op = "new"
    /\ args = << >>
    /\ ret = "Ok"
    /\ printed = Silent
    /\ genLeft = 0
    /\ seedIdx = 0
    /\ tickLog = << >>
    /\ frames = << >>
    /\ overflowChecks \in BOOLEAN

\* for (coord_x, coord_y) in pattern.coordinates() { conway.revive_cell(..)?; }
PatternRevive ==
    /\ pc = "seed"
    /\ seedIdx < Len(coordinates(pattern))
    /\ LET xy == coordinates(pattern)[seedIdx + 1]
           r == revive_cell(cells, width, xy[1], xy[2])
       IN  /\ cells' = r.cells
           /\ ret' = r.ret
           /\ printed' = r.printed
           /\ args' = xy
           /\ pc' = IF r.ret = "Panic" THEN "abort"
                    ELSE IF r.ret = "Err" THEN "exit"
                    ELSE IF seedIdx + 1 = Len(coordinates(pattern)) THEN "loop"
                    ELSE "seed"
    /\ op' = "revive_cell"
    /\ seedIdx' = seedIdx + 1
    /\ UNCHANGED <<frames, overflowChecks>>
    /\ UNCHANGED <<width, height, genLeft, pattern, tickLog>>

\* The boards printed after one pass of `while self.tick()? { ... }` whose
\* tick returned r: the body prints the board only when tick returned true.
loop_frames_prints_always(fr, r) == IF r.ret \in {"Ok(true)", "Ok(false)"} THEN Append(fr, r.cells) ELSE fr

loop_frames(fr, r) == IF r.ret = "Ok(true)" THEN Append(fr, r.cells) ELSE fr

\* One pass of `while self.tick()? { clear_screen()?; self.print()?; ... }`.
GameTick ==
    /\ pc = "loop"
    /\ Len(tickLog) < MaxTicks
    /\ LET r == tick(cells, width, height)
       IN  /\ cells' = r.cells
           /\ ret' = r.ret
           /\ pc' = IF r.ret = "Panic" THEN "abort"
                    ELSE IF r.ret = "Err" THEN "exit"
                    ELSE IF r.ret = "Ok(true)" THEN "loop"
                    ELSE "stable"
           /\ tickLog' = Append(tickLog, r.ret)
           /\ frames' = loop_frames(frames, r)
    /\ op' = "tick"
    /\ args' = << >>
    /\ printed' = Silent
    /\ UNCHANGED overflowChecks
    /\ UNCHANGED <<width, height, genLeft, pattern, seedIdx>>

\* After the loop: self.print()?, "Press any button to exit."
FinalPrint ==
    /\ pc = "stable"
    /\ frames' = Append(frames, cells)
    /\ pc' = "wait"
    /\ UNCHANGED <<width, height, cells, op, args, ret, printed, genLeft, pattern, seedIdx,
                   tickLog, overflowChecks>>

\* io::stdin().read_line returns and game_loop returns Ok(()).
Acknowledge ==
    /\ pc = "wait"
    /\ pc' = "done"
    /\ UNCHANGED <<width, height, cells, op, args, ret, printed, genLeft, pattern, seedIdx,
                   tickLog, frames, overflowChecks>>

NextPattern == PatternRevive \/ GameTick \/ FinalPrint \/ Acknowledge

SpecPattern == InitPattern /\ [][NextPattern]_vars

\* ---------------------------------------------------------------- cells run
\* usize arithmetic.  A usize value v is written as itself when it is small and
\* as v - 2^64 (a negative number) when it is within a small distance below
\* 2^64; sums, products and differences of such numbers are then the ordinary
\* integer ones (the arithmetic is modulo 2^64), and an operation overflows
\* exactly when the signs below say so.  Values in the middle of the range are
\* outside the inputs considered.
sub_overflows(a, b) == a >= 0 /\ a - b < 0
mul_overflows(a, w) == a < 0 /\ w >= 2
add_overflows(a, b) == (a < 0 /\ b < 0) \/ ((a < 0 \/ b < 0) /\ a + b >= 0)

\* x + y * self.width overflows
index_overflows(w, x, y) == mul_overflows(y, w) \/ add_overflows(x, y * w)

\* The coordinates a user can write for one axis of a board of extent dim.
UserCoords(dim) == (0 - WordSlack) .. (dim + CoordSlack)

\* let (x, y) = cell; conway.revive_cell(x - 1, y - 1)?
\* With overflow checks (the dev profile) an overflowing operation panics;
\* without them (the release profile) it wraps.
seed_cell(c, w, x, y, checks) ==
    IF checks /\ (sub_overflows(x, 1) \/ sub_overflows(y, 1))
    THEN [ret |-> "Panic", cells |-> c, printed |-> Silent]
    ELSE IF checks /\ index_overflows(w, x - 1, y - 1)
    THEN [ret |-> "Panic", cells |-> c, printed |-> Silent]
    ELSE revive_cell(c, w, x - 1, y - 1)

\* main with a cells argument: Conway::new(width, height) and one revive_cell
\* per pair of the list, then game_loop.  The list may be empty.
InitCells ==
    /\ \E d \in BoardSizes : width = d[1] /\ height = d[2]
    /\ width * height <= MaxSetCells
    /\ cells = NewCells(width, height)
    /\ pc \in {"seed", "loop"}
    /\ op = "new"
    /\ args = << >>
    /\ ret = "Ok"
    /\ printed = Silent
    /\ genLeft = 0
    /\ pattern = "none"
    /\ seedIdx = 0
    /\ tickLog = << >>
    /\ frames = << >>
    /\ overflowChecks \in BOOLEAN

\* One pass of `for cell in cells { ... }` on the pair (x, y); last tells
\* whether the list ends with this pair.
CellsRevive(x, y, last) ==
    /\ pc = "seed"
    /\ seedIdx < MaxPairs
    /\ (seedIdx + 1 = MaxPairs) => last
    /\ LET r == seed_cell(cells, width, x, y, overflowChecks)
       IN  /\ cells' = r.cells
           /\ ret' = r.ret
           /\ printed' = r.printed
           /\ pc' = IF r.ret = "Panic" THEN "abort"
                    ELSE IF r.ret = "Err" THEN "exit"
                    ELSE IF last THEN "loop"
                    ELSE "seed"
    /\ op' = "seed_cell"
    /\ args' = <<x, y>>
    /\ seedIdx' = seedIdx + 1
    /\ UNCHANGED <<width, height, genLeft, pattern, tickLog, frames, overflowChecks>>

NextCells ==
    \/ \E x \in UserCoords(width), y \in UserCoords(height), last \in BOOLEAN :
          CellsRevive(x, y, last)
    \/ GameTick
    \/ FinalPrint
    \/ Acknowledge

SpecCells == InitCells /\ [][NextCells]_vars

\* ---------------------------------------------------------------- properties
OnBoard(x, y) == x \in 0 .. width - 1 /\ y \in 0 .. height - 1

\* The cell at column x of row y of grid c.
At(c, x, y) == c[x + y * width]

AllDead(c) == \A i \in DOMAIN c : c[i] = Dead

AliveCount(c) == Cardinality({i \in DOMAIN c : c[i] = Alive})

\* The Game of Life rule for the cell (x, y) of grid c, with the live-neighbour
\* count the engine reports for c.
Rule(c, x, y) ==
    LET n == neighbors(c, width, x, y).n
    IN  IF At(c, x, y) = Alive /\ n \notin {2, 3} THEN Dead
        ELSE IF At(c, x, y) = Dead /\ n = 3 THEN Alive
        ELSE At(c, x, y)

\* The number of Alive cells among the Moore neighbours of (x, y) that lie on the board.
MooreCount(c, x, y) ==
    Cardinality({d \in (-1 .. 1) \X (-1 .. 1) :
                    /\ d # <<0, 0>>
                    /\ OnBoard(x + d[1], y + d[2])
                    /\ At(c, x + d[1], y + d[2]) = Alive})

\* The grid whose Alive cells are exactly the coordinates of pattern p.
SeededGrid(p) ==
    [i \in 0 .. width * height - 1 |->
        IF \E k \in 1 .. Len(coordinates(p)) :
              coordinates(p)[k] = <<i % width, i \div width>>
        THEN Alive ELSE Dead]

C2_NeighborsCountOnBoardOnly ==
    \A x \in 0 .. width - 1, y \in 0 .. height - 1 :
        /\ neighbors(cells, width, x, y).ret = "Ok"
        /\ neighbors(cells, width, x, y).n = MooreCount(cells, x, y)

\* C3: tick returns true exactly when some cell differs after the call; when it
\* returns false the grid is the grid before the call.
C3_TrueIffChanged ==
    [][op' = "tick" =>
         /\ ret' \in {"Ok(true)", "Ok(false)"}
         /\ (ret' = "Ok(true)") <=> (cells' # cells)
         /\ (ret' = "Ok(false)") => (cells' = cells)]_vars

C3_Witness ==
    /\ op = "tick"
    /\ tickLog = <<"Ok(true)", "Ok(false)">>
    /\ ~AllDead(cells)

\* C4: a tick of a grid in which every cell is Dead returns false and leaves
\* every cell Dead, whatever the size of the board.
C4_DeadGridIsFixed ==
    [][(op' = "tick" /\ AllDead(cells)) => (ret' = "Ok(false)" /\ AllDead(cells'))]_vars

C4_Witness ==
    /\ op = "tick" /\ ret = "Ok(false)"
    /\ AllDead(cells)
    /\ width * height = MaxCells

\* C5: once tick has returned false, the next tick of the board returns false
\* too and leaves the grid as it is (so every later tick does).
C5_FixedPointsArePermanent ==
    [][(op = "tick" /\ ret = "Ok(false)" /\ op' = "tick") =>
         (ret' = "Ok(false)" /\ cells' = cells)]_vars

C5_Witness ==
    /\ op = "tick"
    /\ Len(tickLog) >= 3
    /\ \A k \in 1 .. Len(tickLog) : tickLog[k] = "Ok(false)"
    /\ ~AllDead(cells)

\* C6: the Blinker seeded on a board of at least 5x5: the first and the second
\* tick return true, the grid after the first differs from the seeded grid and
\* the grid after the second is the seeded grid.
C6_BlinkerHasPeriodTwo ==
    pattern = "Blinker" =>
        /\ pc \notin {"exit", "abort"}
        /\ (pc = "loop" /\ Len(tickLog) = 0) => cells = SeededGrid("Blinker")
        /\ Len(tickLog) >= 1 => tickLog[1] = "Ok(true)"
        /\ Len(tickLog) = 1 => cells # SeededGrid("Blinker")
        /\ Len(tickLog) >= 2 => tickLog[2] = "Ok(true)"
        /\ Len(tickLog) = 2 => cells = SeededGrid("Blinker")

C6_Witness ==
    /\ pattern = "Blinker"
    /\ width > 5 /\ height > 5
    /\ Len(tickLog) = 2
    /\ AliveCount(cells) = 3

\* C7: revive_cell(x, y) with x >= width or y >= height returns an error and
\* leaves every cell unchanged.
C7_ReviveOffBoardFails ==
    [][(op' = "revive_cell" /\ (args'[1] >= width \/ args'[2] >= height)) =>
         (ret' = "Err" /\ cells' = cells)]_vars

\* C8: revive_cell(x, y) of a cell of the board succeeds, leaves that cell Alive
\* and every other cell unchanged; for a cell that is Alive already it succeeds
\* as well and the grid is unchanged.
C8_ReviveOnBoard ==
    [][(op' = "revive_cell" /\ OnBoard(args'[1], args'[2])) =>
         /\ ret' = "Ok"
         /\ cells' = [cells EXCEPT ![args'[1] + args'[2] * width] = Alive]
         /\ (At(cells, args'[1], args'[2]) = Alive) => (cells' = cells)]_vars

C8_Witness ==
    /\ op = "revive_cell" /\ ret = "Ok"
    /\ OnBoard(args[1], args[2])
    /\ printed = Skipping
    /\ AliveCount(cells) >= 2

\* C9: when generate_board(n), n <= width * height, called on the all-dead board
\* returns, exactly n cells are Alive, whatever pairs were drawn.
C9_GenerateBoardPlacesExactlyN ==
    (op = "generate_board" /\ ret = "Ok" /\ args[1] <= width * height) =>
        AliveCount(cells) = args[1]

C9_Witness ==
    /\ op = "generate_board" /\ ret = "Ok"
    /\ args[1] = width * height
    /\ args[1] >= 4

\* C10: generate_board(n) with n > width * height fails before the placement
\* loop is entered.
C10_TooManyCellsRejected ==
    (op = "generate_board" /\ args[1] > width * height) =>
        (ret = "Err" /\ pc # "gen")

\* C12: on a board with width, height >= 2, neighbors(0, 0) is the number of
\* Alive cells among (1,0), (0,1) and (1,1): at most 3, whatever the other
\* cells hold.
C12_CornerExaminesThreeCells ==
    (width >= 2 /\ height >= 2) =>
        /\ neighbors(cells, width, 0, 0).ret = "Ok"
        /\ neighbors(cells, width, 0, 0).n =
              Cardinality({d \in {<<1, 0>>, <<0, 1>>, <<1, 1>>} : At(cells, d[1], d[2]) = Alive})
        /\ neighbors(cells, width, 0, 0).n <= 3

C12_Witness ==
    /\ width >= 3 /\ height >= 3
    /\ AliveCount(cells) = width * height
    /\ neighbors(cells, width, 0, 0).n = 3

\* C13: get_cell(x, y) is the cell at column x of row y when x < width and
\* y < height, and absent for every other coordinate.
C13_GetCellOnBoardOnly ==
    \A x \in 0 .. width + CoordSlack, y \in 0 .. height + CoordSlack :
        get_cell(cells, width, x, y) = IF OnBoard(x, y) THEN At(cells, x, y) ELSE None

\* The preset is seeded on a board of its preferred size.
PreferredSize == width = size(pattern)[1] /\ height = size(pattern)[2]

\* C18: seeding a preset on a board of its preferred size: no revive_cell call
\* fails or finds its cell alive already, each call adds one Alive cell, and
\* the seeded grid has Alive cells exactly at the listed columns and rows.
C18_PresetsSeedCleanly ==
    PreferredSize =>
        /\ pc \notin {"exit", "abort"}
        /\ op = "revive_cell" => (ret = "Ok" /\ printed = Silent)
        /\ op \in {"new", "revive_cell"} => AliveCount(cells) = seedIdx
        /\ (pc = "loop" /\ tickLog = << >>) =>
              /\ cells = SeededGrid(pattern)
              /\ AliveCount(cells) = Len(coordinates(pattern))

C18_Witness ==
    /\ PreferredSize
    /\ pattern = "Loaf"
    /\ pc = "loop" /\ tickLog = << >>
    /\ AliveCount(cells) = 7

StillLifes == {"Block", "Beehive", "Loaf", "Tub"}

\* C19: a preset named after a still life, seeded on a board of its preferred
\* size, is a fixed point: the first tick returns false and leaves the grid.
C19_StillLifesAreFixed ==
    (pattern \in StillLifes /\ PreferredSize /\ Len(tickLog) >= 1) =>
        (tickLog[1] = "Ok(false)" /\ cells = SeededGrid(pattern))

LastTick == tickLog[Len(tickLog)]

\* C11: the run is seeding, then ticks, each tick that returned true followed by
\* one print, then at the first false no further tick, one more print of the
\* stable grid and the end; no tick and no print happens while seeding, and
\* seeding is not entered again.
C11_RunFollowsStateMachine ==
    /\ pc = "seed" => (tickLog = << >> /\ frames = << >>)
    /\ \A k \in 1 .. Len(tickLog) - 1 : tickLog[k] = "Ok(true)"
    /\ pc = "loop" =>
          /\ tickLog # << >> => LastTick = "Ok(true)"
          /\ Len(frames) = Len(tickLog)
          /\ frames # << >> => frames[Len(frames)] = cells
    /\ pc = "stable" =>
          /\ LastTick = "Ok(false)"
          /\ Len(frames) = Len(tickLog) - 1
    /\ pc \in {"wait", "done"} =>
          /\ LastTick = "Ok(false)"
          /\ Len(frames) = Len(tickLog)
          /\ frames[Len(frames)] = cells

C11_Witness ==
    /\ pc = "done"
    /\ Len(tickLog) >= 2
    /\ Len(frames) = Len(tickLog)

\* The grid after k ticks of the seeded preset.
RECURSIVE Generation(_)
Generation(k) ==
    IF k = 0 THEN SeededGrid(pattern)
    ELSE tick(Generation(k - 1), width, height).cells

\* C14: the boards printed are the generations of the run in order, starting
\* with the seeded generation 0, and when the run ends every generation up to
\* the stable one has been printed.
C14_EveryGenerationRendered ==
    /\ \A k \in 1 .. Len(frames) : frames[k] = Generation(k - 1)
    /\ pc = "done" => Len(frames) >= Len(tickLog)

\* C15: set_cell(x, y, state) with x + y * width >= width * height returns an
\* error, without a panic, and leaves the grid unchanged.
C15_SetCellRejectsIndexFromLen ==
    [][(op' = "set_cell" /\ args'[1] + args'[2] * width >= width * height) =>
         (ret' = "Err" /\ cells' = cells)]_vars

\* C17: whatever calls were made, failed or not, width and height are those
\* given to Conway::new and the grid holds width * height cells.
C17_DimensionsAreFixed ==
    /\ [](VecLen(cells) = width * height /\ DOMAIN cells = 0 .. width * height - 1)
    /\ [][width' = width /\ height' = height]_vars

C17_Witness ==
    /\ op = "set_cell" /\ ret = "Err"
    /\ width * height = MaxSetCells
    /\ AliveCount(cells) >= 2
    /\ VecLen(cells) = MaxSetCells

\* A pair of the --cells list names a cell when 1 <= x <= width, 1 <= y <= height.
NamesCell(x, y) == x \in 1 .. width /\ y \in 1 .. height

\* C16: seeding from a --cells pair never panics, and a pair that names no
\* cell of the board (x = 0, y = 0, beyond the board, or with an index that
\* overflows) is reported as an error and revives nothing.
C16_BadPairsAreRejected ==
    [][op' = "seed_cell" =>
         /\ ret' # "Panic"
         /\ ~NamesCell(args'[1], args'[2]) => (ret' = "Err" /\ cells' = cells)]_vars

====
